---------------------------- MODULE Spec2Model ----------------------------
(***************************************************************************)
(* A model of bplib/extract.py: the emote extraction pipeline of bpm.      *)
(*                                                                         *)
(* Python strings that the code takes apart with a regular expression      *)
(* (selectors, emote names, pseudo-classes) are sequences of one-character *)
(* strings.  CSS property names and raw CSS values, which extract.py only  *)
(* compares and hands on, are TLA+ strings.  Python's None is the empty    *)
(* tuple None; an optional string is None or Some(s).  A dict is a         *)
(* function; everything print()ed is collected, as a bag of messages, in   *)
(* the variable log.                                                       *)
(***************************************************************************)
EXTENDS Integers, Sequences, FiniteSets, Bags, TLC

VARIABLES
    pc,             \* the caller's position: which function runs next
    selector,       \* _parse_emote_selector: its argument
    parsed,         \* _parse_emote_selector: its return value
    css_rules,      \* the list of CssRule's (selectors, properties, ignore)
    extract,        \* args.extract: the explicitly requested emotes
    partial_emotes, \* the PartialEmote's extract_raw_emotes yields
    emotes,         \* the emote map: (name, suffix) -> PartialEmote
    normal_emotes,  \* classify_emotes: the first map it returns
    custom_emotes,  \* classify_emotes: the second map it returns
    spritesheets,   \* build_spritesheet_map: image_url -> Spritesheet
    log             \* everything printed so far

vars == <<pc, selector, parsed, css_rules, extract, partial_emotes, emotes,
          normal_emotes, custom_emotes, spritesheets, log>>

-----------------------------------------------------------------------------
(* Values *)

None == <<>>

Some(v) == <<v>>

\* Python's truth value of an optional string: None and "" are false.
Truthy(opt) == opt # None /\ opt[1] # <<>>

\* The empty dict.
EmptyMap == [k \in {} |-> None]

\* d.update(e)
Update(d, e) ==
    [k \in DOMAIN d \cup DOMAIN e |-> IF k \in DOMAIN e THEN e[k] ELSE d[k]]

\* d with the keys of ks deleted
Without(d, ks) == [k \in DOMAIN d \ ks |-> d[k]]

Range(s) == {s[n] : n \in DOMAIN s}

-----------------------------------------------------------------------------
(* The character classes of the regular expression (ASCII only) *)

Lower == {"a", "b", "c", "d", "e", "f", "g", "h", "i", "j", "k", "l", "m",
          "n", "o", "p", "q", "r", "s", "t", "u", "v", "w", "x", "y", "z"}

Upper == {"A", "B", "C", "D", "E", "F", "G", "H", "I", "J", "K", "L", "M",
          "N", "O", "P", "Q", "R", "S", "T", "U", "V", "W", "X", "Y", "Z"}

Digit == {"0", "1", "2", "3", "4", "5", "6", "7", "8", "9"}

\* \s
Whitespace == {" ", "\t", "\n", "\r", "\f"}

\* [a-zA-Z\-()]
PseudoChars == Lower \cup Upper \cup {"-", "(", ")"}

\* [\w:!]
NameChars == Lower \cup Upper \cup Digit \cup {"_", ":", "!"}

-----------------------------------------------------------------------------
(* re.match(r'a\s*(:[a-zA-Z\-()]+)?\[href.?="(/[\w:!]+)"\](:[a-zA-Z\-()]+)?$') *)

\* Whether lit occurs in s at position i.
StartsWith(s, i, lit) ==
    /\ i + Len(lit) - 1 <= Len(s)
    /\ SubSeq(s, i, i + Len(lit) - 1) = lit

\* A greedy run of characters of cls from position i: the position after it.
RECURSIVE RunEnd(_, _, _)
RunEnd(s, i, cls) ==
    IF i <= Len(s) /\ s[i] \in cls THEN RunEnd(s, i + 1, cls) ELSE i

\* (:[a-zA-Z\-()]+)? at position i: the group and the position after it.
\* The character after the group is never one of the class, so the greedy
\* run is the only one that can match.
OptPseudo(s, i) ==
    LET e == RunEnd(s, i + 1, PseudoChars)
    IN  IF i <= Len(s) /\ s[i] = ":" /\ e > i + 1
        THEN [group |-> Some(SubSeq(s, i, e - 1)), next |-> e]
        ELSE [group |-> None, next |-> i]

\* $ at position i: the end of the string, or just before a final newline.
AtEnd(s, i) == i = Len(s) + 1 \/ (i = Len(s) /\ s[i] = "\n")

\* A slip: the group of the name opens after the slash.
re_match_NameAfterSlash(s) ==
    IF ~StartsWith(s, 1, <<"a">>) THEN None ELSE
    LET g1 == OptPseudo(s, RunEnd(s, 2, Whitespace))
        i2 == g1.next
    IN  IF ~StartsWith(s, i2, <<"[", "h", "r", "e", "f">>) THEN None ELSE
    LET i3 == i2 + 5
        \* .? takes one character (not a newline) when =" follows it
        i4 == IF /\ i3 <= Len(s)
                 /\ s[i3] # "\n"
                 /\ StartsWith(s, i3 + 1, <<"=", "\"">>)
              THEN i3 + 1 ELSE i3
    IN  IF ~StartsWith(s, i4, <<"=", "\"", "/">>) THEN None ELSE
    LET i5 == i4 + 2
        e  == RunEnd(s, i5 + 1, NameChars)
    IN  IF e = i5 + 1 \/ ~StartsWith(s, e, <<"\"", "]">>) THEN None ELSE
    LET g3 == OptPseudo(s, e + 2)
    IN  IF ~AtEnd(s, g3.next) THEN None
        ELSE <<g1.group, SubSeq(s, i5 + 1, e - 1), g3.group>>

\* None, or m.groups() = <<pc1, emote_name, pc2>>.
re_match(s) ==
    IF ~StartsWith(s, 1, <<"a">>) THEN None ELSE
    LET g1 == OptPseudo(s, RunEnd(s, 2, Whitespace))
        i2 == g1.next
    IN  IF ~StartsWith(s, i2, <<"[", "h", "r", "e", "f">>) THEN None ELSE
    LET i3 == i2 + 5
        \* .? takes one character (not a newline) when =" follows it
        i4 == IF /\ i3 <= Len(s)
                 /\ s[i3] # "\n"
                 /\ StartsWith(s, i3 + 1, <<"=", "\"">>)
              THEN i3 + 1 ELSE i3
    IN  IF ~StartsWith(s, i4, <<"=", "\"", "/">>) THEN None ELSE
    LET i5 == i4 + 2
        e  == RunEnd(s, i5 + 1, NameChars)
    IN  IF e = i5 + 1 \/ ~StartsWith(s, e, <<"\"", "]">>) THEN None ELSE
    LET g3 == OptPseudo(s, e + 2)
    IN  IF ~AtEnd(s, g3.next) THEN None
        ELSE <<g1.group, SubSeq(s, i5, e - 1), g3.group>>

-----------------------------------------------------------------------------
(* _parse_emote_selector *)

HOVER == <<":", "h", "o", "v", "e", "r">>

ACTIVE == <<":", "a", "c", "t", "i", "v", "e">>

NTH_OF_TYPE_N ==
    <<":", "n", "t", "h", "-", "o", "f", "-", "t", "y", "p", "e", "(", "n", ")">>

WarnMultiplePseudo(sel) ==
    [kind |-> "WARNING: multiple psuedo classes", selector |-> sel]

WarnUnknownPseudo(sel) ==
    [kind |-> "WARNING: unknown psuedo-class", selector |-> sel]

\* A slip: the trailing pseudo-class is preferred to the leading one.
_parse_emote_selector_pc2_first(sel) ==
    LET m == re_match(sel) IN
    IF m = None THEN [result |-> None, log |-> EmptyBag] ELSE
    LET pc1          == m[1]
        emote_name   == m[2]
        pc2          == m[3]
        psuedo_class == IF Truthy(pc2) THEN pc2 ELSE pc1
        known        == psuedo_class \in {Some(HOVER), Some(ACTIVE)}
        unknown      == Truthy(psuedo_class) /\ ~known
                           /\ psuedo_class # Some(NTH_OF_TYPE_N)
        suffix       == IF ~Truthy(psuedo_class) THEN None
                        ELSE IF known THEN psuedo_class
                        ELSE IF unknown THEN psuedo_class
                        ELSE None
    IN  [result |-> <<emote_name, suffix>>,
         log    |-> (IF Truthy(pc1) /\ Truthy(pc2)
                     THEN SetToBag({WarnMultiplePseudo(sel)}) ELSE EmptyBag)
                    (+) (IF unknown
                         THEN SetToBag({WarnUnknownPseudo(sel)}) ELSE EmptyBag)]

\* The pair it returns (or None) and what it prints.
_parse_emote_selector(sel) ==
    LET m == re_match(sel) IN
    IF m = None THEN [result |-> None, log |-> EmptyBag] ELSE
    LET pc1          == m[1]
        emote_name   == m[2]
        pc2          == m[3]
        psuedo_class == IF Truthy(pc1) THEN pc1 ELSE pc2
        known        == psuedo_class \in {Some(HOVER), Some(ACTIVE)}
        unknown      == Truthy(psuedo_class) /\ ~known
                           /\ psuedo_class # Some(NTH_OF_TYPE_N)
        suffix       == IF ~Truthy(psuedo_class) THEN None
                        ELSE IF known THEN psuedo_class
                        ELSE IF unknown THEN psuedo_class
                        ELSE None
    IN  [result |-> <<emote_name, suffix>>,
         log    |-> (IF Truthy(pc1) /\ Truthy(pc2)
                     THEN SetToBag({WarnMultiplePseudo(sel)}) ELSE EmptyBag)
                    (+) (IF unknown
                         THEN SetToBag({WarnUnknownPseudo(sel)}) ELSE EmptyBag)]

-----------------------------------------------------------------------------
(* Selectors the specifications draw from *)

\* The parts of a selector of the emote grammar.
LeadSpaces == {<<>>, <<" ">>}

BEFORE == <<":", "b", "e", "f", "o", "r", "e">>

PseudoClasses == {None, Some(HOVER), Some(ACTIVE), Some(NTH_OF_TYPE_N), Some(BEFORE)}

HrefOps == {<<>>, <<"|">>, <<"=">>}

SMILE == <<"/", "s", "m", "i", "l", "e">>

PP3 == <<"/", "p", "p", ":", "3">>

EmoteNames == {SMILE, PP3}

FinalNewline == {<<>>, <<"\n">>}

OptText(opt) == IF opt = None THEN <<>> ELSE opt[1]

\* 'a' ws pc1 '[href' op '="' name '"]' pc2 nl
EmoteSelector(ws, pc1, op, name, pc2, nl) ==
    <<"a">> \o ws \o OptText(pc1) \o <<"[", "h", "r", "e", "f">> \o op
        \o <<"=", "\"">> \o name \o <<"\"", "]">> \o OptText(pc2) \o nl

GrammarParts ==
    LeadSpaces \X PseudoClasses \X HrefOps \X EmoteNames \X PseudoClasses
        \X FinalNewline

PartsSelector(p) == EmoteSelector(p[1], p[2], p[3], p[4], p[5], p[6])

GrammarSelectors == {PartsSelector(p) : p \in GrammarParts}

START_PONYSCRIPT_IGNORE ==
    <<"S", "T", "A", "R", "T", "-", "P", "O", "N", "Y", "S", "C", "R", "I",
      "P", "T", "-", "I", "G", "N", "O", "R", "E">>

END_PONYSCRIPT_IGNORE ==
    <<"E", "N", "D", "-", "P", "O", "N", "Y", "S", "C", "R", "I", "P", "T",
      "-", "I", "G", "N", "O", "R", "E">>

BAR == <<".", "b", "a", "r">>

FOO == <<".", "f", "o", "o">>

\* Selectors outside the emote grammar.
OtherSelectors ==
    { START_PONYSCRIPT_IGNORE, END_PONYSCRIPT_IGNORE, BAR, FOO, <<>>, <<"a">>,
      <<"a">> \o HOVER,
      \* no leading slash in the name
      <<"a", "[", "h", "r", "e", "f", "=", "\"", "x", "\"", "]">>,
      \* an empty name
      <<"a", "[", "h", "r", "e", "f", "=", "\"", "/", "\"", "]">>,
      \* a character outside [\w:!] in the name
      <<"a", "[", "h", "r", "e", "f", "=", "\"", "/", "x", "-", "y", "\"", "]">>,
      \* another element
      <<"b", "[", "h", "r", "e", "f", "=", "\"", "/", "x", "\"", "]">>,
      \* text before the selector
      <<" ">> \o EmoteSelector(<<>>, None, <<>>, SMILE, None, <<>>),
      \* text after the selector
      EmoteSelector(<<>>, None, <<>>, SMILE, None, <<" ", "b">>),
      EmoteSelector(<<>>, None, <<>>, SMILE, Some(HOVER), <<" ">>),
      EmoteSelector(<<>>, None, <<>>, SMILE, None, <<"\n", "\n">>),
      \* two comparison characters
      EmoteSelector(<<>>, None, <<"|", "|">>, SMILE, None, <<>>),
      \* a newline as the comparison character
      EmoteSelector(<<>>, None, <<"\n">>, SMILE, None, <<>>),
      \* a digit in the pseudo-class
      EmoteSelector(<<>>, None, <<>>, SMILE,
                    Some(<<":", "n", "t", "h", "(", "2", ")">>), <<>>),
      \* a bare colon
      EmoteSelector(<<>>, Some(<<":">>), <<>>, SMILE, None, <<>>),
      \* space between the pseudo-class and the attribute
      EmoteSelector(<<>>, Some(HOVER \o <<" ">>), <<>>, SMILE, None, <<>>),
      \* two pseudo-classes in one place
      EmoteSelector(<<>>, None, <<>>, SMILE, Some(HOVER \o ACTIVE), <<>>) }

-----------------------------------------------------------------------------
(* Calling _parse_emote_selector on one selector *)

InitParse ==
    /\ pc = "parse"
    /\ selector \in GrammarSelectors \cup OtherSelectors
    /\ parsed = None
    /\ css_rules = <<>>
    /\ extract = {}
    /\ partial_emotes = <<>>
    /\ emotes = EmptyMap
    /\ normal_emotes = EmptyMap
    /\ custom_emotes = EmptyMap
    /\ spritesheets = EmptyMap
    /\ log = EmptyBag

Parse ==
    /\ pc = "parse"
    /\ parsed' = _parse_emote_selector(selector).result
    /\ log' = log (+) _parse_emote_selector(selector).log
    /\ pc' = "parsed"
    /\ UNCHANGED <<selector, css_rules, extract, partial_emotes, emotes,
                   normal_emotes, custom_emotes, spritesheets>>

SpecParse == InitParse /\ [][Parse]_vars

-----------------------------------------------------------------------------
(* What the selector built from the parts p resolves to *)

C10_Effective(p) == IF p[2] # None THEN p[2] ELSE p[5]

C10_Suffix(p) ==
    IF C10_Effective(p) = Some(NTH_OF_TYPE_N) THEN None ELSE C10_Effective(p)

C10_Unknown(p) ==
    C10_Effective(p) \notin {None, Some(HOVER), Some(ACTIVE), Some(NTH_OF_TYPE_N)}

(***************************************************************************)
(* C10: for a selector of the emote grammar with optional leading          *)
(* pseudo-class pc1 and optional trailing pseudo-class pc2, the name is    *)
(* the path, the effective pseudo-class is pc1 if present and otherwise    *)
(* pc2, the suffix is that pseudo-class if it is :hover or :active, null   *)
(* if it is :nth-of-type(n) or absent, and that pseudo-class with an       *)
(* unknown-pseudo-class warning otherwise; the ambiguity warning is        *)
(* printed exactly when both are present; a selector outside the grammar   *)
(* returns null and prints nothing.                                        *)
(***************************************************************************)
C10_SuffixResolution ==
    pc = "parsed" =>
        /\ \A p \in GrammarParts :
              selector = PartsSelector(p) =>
                  /\ parsed = <<p[4], C10_Suffix(p)>>
                  /\ CopiesIn(WarnUnknownPseudo(selector), log)
                        = (IF C10_Unknown(p) THEN 1 ELSE 0)
                  /\ CopiesIn(WarnMultiplePseudo(selector), log)
                        = (IF p[2] # None /\ p[5] # None THEN 1 ELSE 0)
        /\ selector \notin GrammarSelectors =>
              parsed = None /\ log = EmptyBag

C10_Witness ==
    /\ pc = "parsed"
    /\ selector = EmoteSelector(<<>>, Some(NTH_OF_TYPE_N), <<"|">>, SMILE,
                                Some(HOVER), <<>>)
    /\ parsed = <<SMILE, None>>

-----------------------------------------------------------------------------
(* filter_ponyscript_ignores *)

WarnSplit(sel) ==
    [kind |-> "WARNING: selector split across PONYSCRIPT-IGNORE block",
     selector |-> sel]

\* The bag of the elements of a sequence.
RECURSIVE SeqToBag(_)
SeqToBag(s) ==
    IF s = <<>> THEN EmptyBag ELSE SetToBag({Head(s)}) (+) SeqToBag(Tail(s))

\* The state before the first rule: nothing seen, nothing printed.
FilterStart ==
    [ignoring |-> FALSE, visible |-> {}, hidden |-> {}, rules |-> <<>>,
     log |-> EmptyBag]

\* A slip: the END marker switches ignoring off before rule.ignore is set.
FilterRule_EndFirst(st, rule) ==
    LET started   == st.ignoring \/ START_PONYSCRIPT_IGNORE \in Range(rule.selectors)
        ignoring  == started /\ END_PONYSCRIPT_IGNORE \notin Range(rule.selectors)
        refuse_in == IF ignoring THEN st.visible ELSE st.hidden
        split     == SelectSeq(rule.selectors, LAMBDA sel : sel \in refuse_in)
    IN  [ignoring |-> ignoring,
         visible  |-> IF ignoring THEN st.visible
                      ELSE st.visible \cup Range(rule.selectors),
         hidden   |-> IF ignoring THEN st.hidden \cup Range(rule.selectors)
                      ELSE st.hidden,
         rules    |-> Append(st.rules, [rule EXCEPT !.ignore = ignoring]),
         log      |-> st.log (+) SeqToBag([n \in DOMAIN split |-> WarnSplit(split[n])])]

\* A slip: a selector is looked up in the set it was just added to.
FilterRule_RefuseOwnSet(st, rule) ==
    LET ignoring  == st.ignoring \/ START_PONYSCRIPT_IGNORE \in Range(rule.selectors)
        refuse_in == (IF ignoring THEN st.hidden ELSE st.visible)
                         \cup Range(rule.selectors)
        split     == SelectSeq(rule.selectors, LAMBDA sel : sel \in refuse_in)
    IN  [ignoring |-> ignoring /\ END_PONYSCRIPT_IGNORE \notin Range(rule.selectors),
         visible  |-> IF ignoring THEN st.visible
                      ELSE st.visible \cup Range(rule.selectors),
         hidden   |-> IF ignoring THEN st.hidden \cup Range(rule.selectors)
                      ELSE st.hidden,
         rules    |-> Append(st.rules, [rule EXCEPT !.ignore = ignoring]),
         log      |-> st.log (+) SeqToBag([n \in DOMAIN split |-> WarnSplit(split[n])])]

\* The body of the loop over css_rules.  add_to and refuse_in are different
\* sets, so what a rule adds to add_to never shows in its own lookups.
FilterRule(st, rule) ==
    LET ignoring  == st.ignoring \/ START_PONYSCRIPT_IGNORE \in Range(rule.selectors)
        refuse_in == IF ignoring THEN st.visible ELSE st.hidden
        split     == SelectSeq(rule.selectors, LAMBDA sel : sel \in refuse_in)
    IN  [ignoring |-> ignoring /\ END_PONYSCRIPT_IGNORE \notin Range(rule.selectors),
         visible  |-> IF ignoring THEN st.visible
                      ELSE st.visible \cup Range(rule.selectors),
         hidden   |-> IF ignoring THEN st.hidden \cup Range(rule.selectors)
                      ELSE st.hidden,
         rules    |-> Append(st.rules, [rule EXCEPT !.ignore = ignoring]),
         log      |-> st.log (+) SeqToBag([n \in DOMAIN split |-> WarnSplit(split[n])])]

RECURSIVE FilterLoop(_, _)
FilterLoop(st, rules) ==
    IF rules = <<>> THEN st ELSE FilterLoop(FilterRule(st, Head(rules)), Tail(rules))

\* The rules with their ignore flags set, and what was printed.
filter_ponyscript_ignores(rules) == FilterLoop(FilterStart, rules)

\* A CssRule as the parser makes it: its ignore flag is not yet decided and
\* is taken to be off.
CssRule(selectors, properties) ==
    [selectors |-> selectors, properties |-> properties, ignore |-> FALSE]

MaxFilterRules == 4

FilterSelectorLists ==
    { <<START_PONYSCRIPT_IGNORE>>, <<END_PONYSCRIPT_IGNORE>>, <<BAR>>, <<FOO>>,
      <<START_PONYSCRIPT_IGNORE, BAR>>, <<BAR, END_PONYSCRIPT_IGNORE>>,
      <<START_PONYSCRIPT_IGNORE, END_PONYSCRIPT_IGNORE>>, <<BAR, BAR>> }

FilterRules == {CssRule(sels, EmptyMap) : sels \in FilterSelectorLists}

InitFilter ==
    /\ pc = "filter"
    /\ css_rules \in UNION {[1..n -> FilterRules] : n \in 0..MaxFilterRules}
    /\ selector = <<>>
    /\ parsed = None
    /\ extract = {}
    /\ partial_emotes = <<>>
    /\ emotes = EmptyMap
    /\ normal_emotes = EmptyMap
    /\ custom_emotes = EmptyMap
    /\ spritesheets = EmptyMap
    /\ log = EmptyBag

Filter ==
    /\ pc = "filter"
    /\ css_rules' = filter_ponyscript_ignores(css_rules).rules
    /\ log' = log (+) filter_ponyscript_ignores(css_rules).log
    /\ pc' = "extract"
    /\ UNCHANGED <<selector, parsed, extract, partial_emotes, emotes,
                   normal_emotes, custom_emotes, spritesheets>>

SpecFilter == InitFilter /\ [][Filter]_vars

HasSelector(i, sel) == sel \in Range(css_rules[i].selectors)

(***************************************************************************)
(* C1: after filter_ponyscript_ignores, rule i is ignored exactly when     *)
(* some rule j <= i has START-PONYSCRIPT-IGNORE among its selectors and no *)
(* rule k with j <= k < i has END-PONYSCRIPT-IGNORE among its selectors.   *)
(***************************************************************************)
C1_IgnoreRegions ==
    pc = "extract" =>
        \A i \in DOMAIN css_rules :
            css_rules[i].ignore <=>
                \E j \in 1..i :
                    /\ HasSelector(j, START_PONYSCRIPT_IGNORE)
                    /\ \A k \in j..(i - 1) : ~HasSelector(k, END_PONYSCRIPT_IGNORE)

\* START, a rule, END (on a rule with another selector), a rule: the first
\* three are ignored and the last is not.
C1_Witness ==
    /\ pc = "extract"
    /\ Len(css_rules) = 4
    /\ css_rules[1].selectors = <<START_PONYSCRIPT_IGNORE>>
    /\ css_rules[2].selectors = <<FOO>>
    /\ css_rules[3].selectors = <<BAR, END_PONYSCRIPT_IGNORE>>
    /\ css_rules[4].selectors = <<BAR>>
    /\ css_rules[1].ignore /\ css_rules[2].ignore /\ css_rules[3].ignore
    /\ ~css_rules[4].ignore

\* The places (rule, position) of the selectors of css_rules.
C7_Occurrences ==
    UNION {{i} \X DOMAIN css_rules[i].selectors : i \in DOMAIN css_rules}

C7_SplitOccurrences(sel) ==
    { o \in C7_Occurrences :
        /\ css_rules[o[1]].selectors[o[2]] = sel
        /\ \E j \in 1..(o[1] - 1) :
              HasSelector(j, sel) /\ css_rules[j].ignore # css_rules[o[1]].ignore }

(***************************************************************************)
(* C7: the split warning is printed once for every occurrence of a         *)
(* selector string in a rule for which the same string occurs in an        *)
(* earlier rule whose ignore state is the opposite, and for no other.      *)
(***************************************************************************)
C7_SplitWarnings ==
    pc = "extract" =>
        /\ \A sel \in {START_PONYSCRIPT_IGNORE, END_PONYSCRIPT_IGNORE, BAR, FOO} :
              CopiesIn(WarnSplit(sel), log) = Cardinality(C7_SplitOccurrences(sel))
        /\ \A m \in BagToSet(log) : m.kind = WarnSplit(BAR).kind

\* .bar before the region, twice inside it and once after it: each occurrence
\* but the first is reported.
C7_Witness ==
    /\ pc = "extract"
    /\ Len(css_rules) = 4
    /\ css_rules[1].selectors = <<BAR>>
    /\ css_rules[2].selectors = <<START_PONYSCRIPT_IGNORE, BAR>>
    /\ css_rules[3].selectors = <<BAR, END_PONYSCRIPT_IGNORE>>
    /\ css_rules[4].selectors = <<BAR>>
    /\ CopiesIn(WarnSplit(BAR), log) = 3

-----------------------------------------------------------------------------
(* extract_raw_emotes *)

\* bplib.emote.combine_name_pair: the name and the suffix as one string.
combine_name_pair(name, suffix) == name \o OptText(suffix)

PartialEmote(name, suffix, css) == [name |-> name, suffix |-> suffix, css |-> css]

NoticeExtracting(name_pair) ==
    [kind |-> "NOTICE: extracting ignored emote", key |-> name_pair]

RECURSIVE Concat(_)
Concat(seqs) == IF seqs = <<>> THEN <<>> ELSE Head(seqs) \o Concat(Tail(seqs))

RECURSIVE BagSum(_)
BagSum(bags) == IF bags = <<>> THEN EmptyBag ELSE Head(bags) (+) BagSum(Tail(bags))

\* A slip: an explicitly requested emote of an ignored rule is not yielded.
ExtractPair_VisibleOnly(args_extract, rule, pair) ==
    LET extract_explicit == combine_name_pair(pair[1], pair[2]) \in args_extract
    IN  [yielded |-> IF ~rule.ignore
                     THEN <<PartialEmote(pair[1], pair[2], rule.properties)>>
                     ELSE <<>>,
         log     |-> IF extract_explicit
                     THEN SetToBag({NoticeExtracting(pair)}) ELSE EmptyBag]

\* The body of the loop over alias_pairs, for one pair: what is yielded and
\* what is printed.
ExtractPair(args_extract, rule, pair) ==
    LET extract_explicit == combine_name_pair(pair[1], pair[2]) \in args_extract
    IN  [yielded |-> IF extract_explicit \/ ~rule.ignore
                     THEN <<PartialEmote(pair[1], pair[2], rule.properties)>>
                     ELSE <<>>,
         log     |-> IF extract_explicit
                     THEN SetToBag({NoticeExtracting(pair)}) ELSE EmptyBag]

\* filter(None, ...) drops the selectors _parse_emote_selector returns None
\* for (a pair is never false); what it printed stays printed.
ExtractParsed(args_extract, rule, alias_pair) ==
    IF alias_pair.result = None THEN [yielded |-> <<>>, log |-> alias_pair.log]
    ELSE [ExtractPair(args_extract, rule, alias_pair.result) EXCEPT
             !.log = alias_pair.log (+) @]

\* One selector of one rule.
ExtractSelector(args_extract, rule, sel) ==
    ExtractParsed(args_extract, rule, _parse_emote_selector(sel))

\* The yields in order and the prints together.
Gather(each) ==
    [yielded |-> Concat([p \in DOMAIN each |-> each[p].yielded]),
     log     |-> BagSum([p \in DOMAIN each |-> each[p].log])]

\* One rule: the loop over its selectors.
ExtractRule(args_extract, rule) ==
    Gather([p \in DOMAIN rule.selectors |->
               ExtractSelector(args_extract, rule, rule.selectors[p])])

\* Everything the generator yields, in order, and what it prints.
extract_raw_emotes(args_extract, rules) ==
    Gather([i \in DOMAIN rules |-> ExtractRule(args_extract, rules[i])])

MaxExtractRules == 2

SmileSelector == EmoteSelector(<<>>, None, <<"|">>, SMILE, None, <<>>)

SmileHoverSelector == EmoteSelector(<<>>, None, <<"|">>, SMILE, Some(HOVER), <<>>)

HoverSmileSelector == EmoteSelector(<<>>, Some(HOVER), <<>>, SMILE, None, <<>>)

Pp3Selector == EmoteSelector(<<>>, None, <<>>, PP3, Some(NTH_OF_TYPE_N), <<>>)

ExtractSelectorLists ==
    { <<SmileSelector>>, <<HoverSmileSelector>>, <<BAR>>,
      <<SmileHoverSelector, SmileSelector>>, <<BAR, Pp3Selector>>,
      <<SmileSelector, FOO, SmileSelector>> }

ExtractProperties ==
    { [p \in {"width"} |-> "10px"],
      [p \in {"width", "color"} |-> IF p = "width" THEN "20px" ELSE "red"] }

ExtractRules ==
    { [selectors |-> sels, properties |-> props, ignore |-> ign] :
        sels \in ExtractSelectorLists, props \in ExtractProperties,
        ign \in BOOLEAN }

\* The identifiers that may be requested with args.extract.
ExtractIds == {SMILE, SMILE \o HOVER, PP3}

InitExtract ==
    /\ pc = "extract"
    /\ css_rules \in UNION {[1..n -> ExtractRules] : n \in 0..MaxExtractRules}
    /\ extract \in SUBSET ExtractIds
    /\ selector = <<>>
    /\ parsed = None
    /\ partial_emotes = <<>>
    /\ emotes = EmptyMap
    /\ normal_emotes = EmptyMap
    /\ custom_emotes = EmptyMap
    /\ spritesheets = EmptyMap
    /\ log = EmptyBag

Extract ==
    /\ pc = "extract"
    /\ \E out \in {extract_raw_emotes(extract, css_rules)} :
          /\ partial_emotes' = out.yielded
          /\ log' = log (+) out.log
    /\ pc' = "build"
    /\ UNCHANGED <<selector, parsed, css_rules, extract, emotes, normal_emotes,
                   custom_emotes, spritesheets>>

SpecExtract == InitExtract /\ [][Extract]_vars

\* The places (rule, position) of the selectors of css_rules.
C3_Places ==
    UNION {{i} \X DOMAIN css_rules[i].selectors : i \in DOMAIN css_rules}

C3_Pair(o) == _parse_emote_selector(css_rules[o[1]].selectors[o[2]]).result

C3_Yields(o) ==
    /\ C3_Pair(o) # None
    /\ \/ ~css_rules[o[1]].ignore
       \/ C3_Pair(o)[1] \o OptText(C3_Pair(o)[2]) \in extract

C3_Before(o, q) == o[1] < q[1] \/ (o[1] = q[1] /\ o[2] <= q[2])

\* The position in the output of the fragment of place o.
C3_Rank(o) == Cardinality({q \in C3_Places : C3_Yields(q) /\ C3_Before(q, o)})

(***************************************************************************)
(* C3: the fragments extract_raw_emotes yields are, in rule order and then *)
(* selector order, one for every selector that the selector classifier     *)
(* recognises and whose rule is not ignored or whose combined name+suffix  *)
(* is in the explicit-request set, each with the classifier's name and     *)
(* suffix and the rule's properties; nothing else is yielded.              *)
(***************************************************************************)
C3_ExtractYields ==
    pc = "build" =>
        /\ Len(partial_emotes) = Cardinality({o \in C3_Places : C3_Yields(o)})
        /\ \A o \in C3_Places :
              C3_Yields(o) =>
                  partial_emotes[C3_Rank(o)] =
                      [name   |-> C3_Pair(o)[1],
                       suffix |-> C3_Pair(o)[2],
                       css    |-> css_rules[o[1]].properties]

\* An ignored rule whose hover emote was requested and whose base emote was
\* not, then a visible rule: the hover fragment and the visible rule's.
C3_Witness ==
    /\ pc = "build"
    /\ extract = {SMILE \o HOVER}
    /\ Len(css_rules) = 2
    /\ css_rules[1].ignore
    /\ css_rules[1].selectors = <<SmileHoverSelector, SmileSelector>>
    /\ ~css_rules[2].ignore
    /\ css_rules[2].selectors = <<BAR, Pp3Selector>>
    /\ Len(partial_emotes) = 2
    /\ partial_emotes[1].suffix = Some(HOVER)
    /\ partial_emotes[2].name = PP3

-----------------------------------------------------------------------------
(* build_emote_map *)

WarnRedefined(name_pair, property, old, new) ==
    [kind |-> "WARNING: emote redefined property from base", key |-> name_pair,
     property |-> property, from |-> old, to |-> new]

\* A slip: properties already present keep their first value.
BuildFragment_KeepFirst(st, raw_emote) ==
    LET name_pair == <<raw_emote.name, raw_emote.suffix>> IN
    IF name_pair \notin DOMAIN st.emotes
    THEN [emotes |-> Update(st.emotes, [k \in {name_pair} |-> raw_emote]),
          log    |-> st.log]
    ELSE
    LET base_props == st.emotes[name_pair].css
        redefined  == {property \in DOMAIN raw_emote.css :
                          /\ property \in DOMAIN base_props
                          /\ base_props[property] # raw_emote.css[property]}
    IN  [emotes |-> [st.emotes EXCEPT
                        ![name_pair].css = Update(raw_emote.css, base_props)],
         log    |-> st.log (+) SetToBag(
                        {WarnRedefined(name_pair, property, base_props[property],
                                       raw_emote.css[property]) :
                            property \in redefined})]

\* The body of the loop over partial_emotes.  A fragment prints at most one
\* warning for a property, so its warnings are a set.
BuildFragment(st, raw_emote) ==
    LET name_pair == <<raw_emote.name, raw_emote.suffix>> IN
    IF name_pair \notin DOMAIN st.emotes
    THEN [emotes |-> Update(st.emotes, [k \in {name_pair} |-> raw_emote]),
          log    |-> st.log]
    ELSE
    LET base_props == st.emotes[name_pair].css
        redefined  == {property \in DOMAIN raw_emote.css :
                          /\ property \in DOMAIN base_props
                          /\ base_props[property] # raw_emote.css[property]}
    IN  [emotes |-> [st.emotes EXCEPT
                        ![name_pair].css = Update(base_props, raw_emote.css)],
         log    |-> st.log (+) SetToBag(
                        {WarnRedefined(name_pair, property, base_props[property],
                                       raw_emote.css[property]) :
                            property \in redefined})]

RECURSIVE BuildLoop(_, _)
BuildLoop(st, raw_emotes) ==
    IF raw_emotes = <<>> THEN st
    ELSE BuildLoop(BuildFragment(st, Head(raw_emotes)), Tail(raw_emotes))

\* The emote map and what was printed.
build_emote_map(raw_emotes) ==
    BuildLoop([emotes |-> EmptyMap, log |-> EmptyBag], raw_emotes)

MaxFragments == 3

BuildKeys == {<<SMILE, None>>, <<SMILE, Some(HOVER)>>, <<PP3, None>>}

BuildValues == {"5px", "10px"}

BuildCss ==
    { EmptyMap,
      [p \in {"width"} |-> "5px"],
      [p \in {"width"} |-> "10px"],
      [p \in {"height"} |-> "10px"],
      [p \in {"width", "height"} |-> "5px"],
      [p \in {"width", "height"} |-> IF p = "width" THEN "10px" ELSE "5px"] }

BuildFragments ==
    {PartialEmote(key[1], key[2], css) : key \in BuildKeys, css \in BuildCss}

InitBuild ==
    /\ pc = "build"
    /\ partial_emotes \in UNION {[1..n -> BuildFragments] : n \in 0..MaxFragments}
    /\ selector = <<>>
    /\ parsed = None
    /\ css_rules = <<>>
    /\ extract = {}
    /\ emotes = EmptyMap
    /\ normal_emotes = EmptyMap
    /\ custom_emotes = EmptyMap
    /\ spritesheets = EmptyMap
    /\ log = EmptyBag

Build ==
    /\ pc = "build"
    /\ emotes' = build_emote_map(partial_emotes).emotes
    /\ log' = log (+) build_emote_map(partial_emotes).log
    /\ pc' = "collapse"
    /\ UNCHANGED <<selector, parsed, css_rules, extract, partial_emotes,
                   normal_emotes, custom_emotes, spritesheets>>

SpecBuild == InitBuild /\ [][Build]_vars

\* The key of the n-th fragment.
C2_Key(n) == <<partial_emotes[n].name, partial_emotes[n].suffix>>

\* The fragments of a key that define a property.
C2_Defining(key, property) ==
    {n \in DOMAIN partial_emotes :
        C2_Key(n) = key /\ property \in DOMAIN partial_emotes[n].css}

C2_Last(ns) == CHOOSE n \in ns : \A m \in ns : m <= n

\* The fragments that give the property a value other than the accumulated
\* one, which is old, and give it the value new.
C2_Redefining(key, property, old, new) ==
    {n \in C2_Defining(key, property) :
        LET earlier == {m \in C2_Defining(key, property) : m < n}
        IN  /\ earlier # {}
            /\ partial_emotes[C2_Last(earlier)].css[property] = old
            /\ partial_emotes[n].css[property] = new
            /\ old # new}

C2_Properties == UNION {DOMAIN partial_emotes[n].css : n \in DOMAIN partial_emotes}

(***************************************************************************)
(* C2: build_emote_map returns one entry per distinct (name, suffix) of    *)
(* the fragments; the css of a key has exactly the properties some         *)
(* fragment of the key defines, each with the value of the last fragment   *)
(* that defines it; and the redefinition warning (key, property, old, new) *)
(* is printed once for every fragment that gives a property a value        *)
(* different from the one accumulated so far, and for nothing else.        *)
(***************************************************************************)
C2_MergeLastWins ==
    pc = "collapse" =>
        /\ DOMAIN emotes = {C2_Key(n) : n \in DOMAIN partial_emotes}
        /\ \A key \in DOMAIN emotes :
              /\ <<emotes[key].name, emotes[key].suffix>> = key
              /\ DOMAIN emotes[key].css =
                    {property \in C2_Properties : C2_Defining(key, property) # {}}
              /\ \A property \in DOMAIN emotes[key].css :
                    emotes[key].css[property] =
                        partial_emotes[C2_Last(C2_Defining(key, property))].css[property]
        /\ \A key \in BuildKeys, property \in {"width", "height"},
              old \in BuildValues, new \in BuildValues :
              CopiesIn(WarnRedefined(key, property, old, new), log) =
                  Cardinality(C2_Redefining(key, property, old, new))
        /\ \A m \in BagToSet(log) :
              /\ m.kind = WarnRedefined(None, "", "", "").kind
              /\ m.key \in BuildKeys
              /\ m.property \in {"width", "height"}
              /\ m.from \in BuildValues /\ m.to \in BuildValues

\* width 5px, then 10px, then 5px again for one key: two warnings, the last
\* value stays, and the height of the first fragment is kept.
C2_Witness ==
    /\ pc = "collapse"
    /\ Len(partial_emotes) = 3
    /\ \A n \in 1..3 : C2_Key(n) = <<SMILE, Some(HOVER)>>
    /\ partial_emotes[1].css = [p \in {"width", "height"} |-> "5px"]
    /\ partial_emotes[2].css = [p \in {"width"} |-> "10px"]
    /\ partial_emotes[3].css = [p \in {"width"} |-> "5px"]
    /\ emotes[<<SMILE, Some(HOVER)>>].css = [p \in {"width", "height"} |-> "5px"]
    /\ BagCardinality(log) = 2

-----------------------------------------------------------------------------
(* collapse_specials_properties *)

\* A slip: the base's value wins on a shared property.
CollapseEmote_BaseWins(ems, key) ==
    LET emote == ems[key] IN
    IF Truthy(emote.suffix) /\ <<emote.name, None>> \in DOMAIN ems
    THEN [ems EXCEPT ![key].css = Update(emote.css, ems[<<emote.name, None>>].css)]
    ELSE ems

\* The body of the loop over emotes.values(), for the emote stored at key.
CollapseEmote(ems, key) ==
    LET emote == ems[key] IN
    IF Truthy(emote.suffix) /\ <<emote.name, None>> \in DOMAIN ems
    THEN [ems EXCEPT ![key].css = Update(ems[<<emote.name, None>>].css, emote.css)]
    ELSE ems

RECURSIVE CollapseLoop(_, _)
CollapseLoop(ems, order) ==
    IF order = <<>> THEN ems
    ELSE CollapseLoop(CollapseEmote(ems, Head(order)), Tail(order))

\* The emote map after the loop has visited the emotes in the given order.
collapse_specials_properties(ems, order) == CollapseLoop(ems, order)

\* The orders in which a loop may visit the keys of a dict.
VisitOrders(d) ==
    {order \in [1..Cardinality(DOMAIN d) -> DOMAIN d] :
        \A a, b \in DOMAIN order : a # b => order[a] # order[b]}

CollapseKeys ==
    {<<SMILE, None>>, <<SMILE, Some(HOVER)>>, <<SMILE, Some(ACTIVE)>>,
     <<PP3, Some(HOVER)>>}

\* The emote maps build_emote_map can return: each emote under its own key.
EmoteMaps(keys, csss) ==
    UNION {{[key \in ks |-> PartialEmote(key[1], key[2], css[key])] :
                css \in [ks -> csss]} : ks \in SUBSET keys}

InitCollapse ==
    /\ pc = "collapse"
    /\ emotes \in EmoteMaps(CollapseKeys, BuildCss)
    /\ selector = <<>>
    /\ parsed = None
    /\ css_rules = <<>>
    /\ extract = {}
    /\ partial_emotes = <<>>
    /\ normal_emotes = EmptyMap
    /\ custom_emotes = EmptyMap
    /\ spritesheets = EmptyMap
    /\ log = EmptyBag

Collapse ==
    /\ pc = "collapse"
    /\ \E order \in VisitOrders(emotes) :
          emotes' = collapse_specials_properties(emotes, order)
    /\ pc' = "classify"
    /\ UNCHANGED <<selector, parsed, css_rules, extract, partial_emotes,
                   normal_emotes, custom_emotes, spritesheets, log>>

SpecCollapse == InitCollapse /\ [][Collapse]_vars

\* The emote map after is the emote map before, collapsed.
C4_Collapsed(before, after) ==
    /\ DOMAIN after = DOMAIN before
    /\ \A key \in DOMAIN before :
          /\ after[key].name = before[key].name
          /\ after[key].suffix = before[key].suffix
          /\ IF key[2] # None /\ <<key[1], None>> \in DOMAIN before
             THEN LET base == before[<<key[1], None>>].css
                      own  == before[key].css
                  IN  /\ DOMAIN after[key].css = DOMAIN base \cup DOMAIN own
                      /\ \A p \in DOMAIN own : after[key].css[p] = own[p]
                      /\ \A p \in DOMAIN base \ DOMAIN own :
                            after[key].css[p] = base[p]
             ELSE after[key] = before[key]

(***************************************************************************)
(* C4: collapse_specials_properties, whatever the order of the visit,      *)
(* leaves the keys, the base emotes and the variants without a base as     *)
(* they are, and gives every variant (non-null suffix) that has a base     *)
(* (same name, null suffix) the base's css overlaid by its own.            *)
(***************************************************************************)
C4_CollapseInherits ==
    [][pc = "collapse" /\ pc' = "classify" => C4_Collapsed(emotes, emotes')]_vars

\* A hover variant that inherited the base's height and kept its own width.
C4_Witness ==
    /\ pc = "classify"
    /\ DOMAIN emotes = CollapseKeys
    /\ emotes[<<SMILE, None>>].css = [p \in {"width", "height"} |-> "5px"]
    /\ emotes[<<SMILE, Some(HOVER)>>].css =
          [p \in {"width", "height"} |-> IF p = "width" THEN "10px" ELSE "5px"]
    /\ emotes[<<SMILE, Some(ACTIVE)>>].css = [p \in {"width", "height"} |-> "5px"]
    /\ emotes[<<PP3, Some(HOVER)>>].css = EmptyMap

-----------------------------------------------------------------------------
(* classify_emotes *)

CustomEmote(name, suffix, css) == [name |-> name, suffix |-> suffix, css |-> css]

\* A slip: background-position is required of a normal emote as well.
IsNormal_WithPosition(emote) ==
    \A k \in {"background-image", "width", "height", "background-position"} :
        k \in DOMAIN emote.css

\* all(k in emote.css for k in ("background-image", "width", "height"))
IsNormal(emote) ==
    \A k \in {"background-image", "width", "height"} : k \in DOMAIN emote.css

\* The two maps it returns.
classify_emotes(emote_map) ==
    [normal_emotes |->
        [name_pair \in {k \in DOMAIN emote_map : IsNormal(emote_map[k])} |->
            emote_map[name_pair]],
     custom_emotes |->
        [name_pair \in {k \in DOMAIN emote_map : ~IsNormal(emote_map[k])} |->
            CustomEmote(emote_map[name_pair].name, emote_map[name_pair].suffix,
                        emote_map[name_pair].css)]]

ClassifyKeys == {<<SMILE, None>>, <<SMILE, Some(HOVER)>>, <<PP3, None>>}

\* A raw value for each property the classifier may meet.
ClassifyValue(property) ==
    CASE property = "background-image"    -> "url(s.png)"
      [] property = "background-position" -> "0px 0px"
      [] property = "color"               -> "red"
      [] OTHER                            -> "10px"

ClassifyCss ==
    {[p \in ps |-> ClassifyValue(p)] :
        ps \in SUBSET {"background-image", "width", "height",
                        "background-position"}}
    \cup {[p \in {"color"} |-> ClassifyValue(p)]}

InitClassify ==
    /\ pc = "classify"
    /\ emotes \in EmoteMaps(ClassifyKeys, ClassifyCss)
    /\ selector = <<>>
    /\ parsed = None
    /\ css_rules = <<>>
    /\ extract = {}
    /\ partial_emotes = <<>>
    /\ normal_emotes = EmptyMap
    /\ custom_emotes = EmptyMap
    /\ spritesheets = EmptyMap
    /\ log = EmptyBag

Classify ==
    /\ pc = "classify"
    /\ normal_emotes' = classify_emotes(emotes).normal_emotes
    /\ custom_emotes' = classify_emotes(emotes).custom_emotes
    /\ pc' = "sheets"
    /\ UNCHANGED <<selector, parsed, css_rules, extract, partial_emotes, emotes,
                   spritesheets, log>>

SpecClassify == InitClassify /\ [][Classify]_vars

(***************************************************************************)
(* C5: after classify_emotes every key of the emote map is in exactly one  *)
(* of the normal and the custom map and no other key is in either; a key   *)
(* is normal if and only if its css has background-image, width and height *)
(* (background-position is not required); every emote keeps its name, its  *)
(* suffix and its css.                                                     *)
(***************************************************************************)
C5_Partition ==
    pc = "sheets" =>
        /\ DOMAIN normal_emotes \cup DOMAIN custom_emotes = DOMAIN emotes
        /\ DOMAIN normal_emotes \cap DOMAIN custom_emotes = {}
        /\ \A key \in DOMAIN emotes :
              /\ key \in DOMAIN normal_emotes <=>
                    {"background-image", "width", "height"}
                        \subseteq DOMAIN emotes[key].css
              /\ LET out == IF key \in DOMAIN normal_emotes
                            THEN normal_emotes[key] ELSE custom_emotes[key]
                 IN  /\ out.css = emotes[key].css
                     /\ out.name = emotes[key].name
                     /\ out.suffix = emotes[key].suffix

\* A normal emote without background-position, a custom emote with only a
\* colour, and a custom emote that lacks only the height.
C5_Witness ==
    /\ pc = "sheets"
    /\ DOMAIN normal_emotes = {<<SMILE, None>>}
    /\ DOMAIN normal_emotes[<<SMILE, None>>].css =
          {"background-image", "width", "height"}
    /\ DOMAIN custom_emotes = {<<SMILE, Some(HOVER)>>, <<PP3, None>>}
    /\ DOMAIN custom_emotes[<<PP3, None>>].css = {"color"}
    /\ DOMAIN custom_emotes[<<SMILE, Some(HOVER)>>].css =
          {"background-image", "width", "background-position"}

-----------------------------------------------------------------------------
(* The CSS value utilities of bplib.css, on the raw values in use *)

\* bplib.css.as_url: the URL inside url(...), without quotes.
as_url(raw) ==
    CASE raw = "url(s.png)"   -> "s.png"
      [] raw = "url('s.png')" -> "s.png"
      [] raw = "url(t.png)"   -> "t.png"

\* bplib.css.as_size: the number of pixels.
as_size(raw) ==
    CASE raw = "5px"  -> 5
      [] raw = "10px" -> 10
      [] raw = "20px" -> 20

\* bplib.css.as_position: the pair of pixel offsets.
as_position(raw, width, height) ==
    CASE raw = "0px 0px"     -> <<0, 0>>
      [] raw = "-10px -20px" -> <<-10, -20>>

-----------------------------------------------------------------------------
(* build_spritesheet_map *)

NormalEmote(name, suffix, css, image_url, size, offset) ==
    [name |-> name, suffix |-> suffix, css |-> css, image_url |-> image_url,
     size |-> size, offset |-> offset]

Spritesheet(image_url, ems) == [image_url |-> image_url, emotes |-> ems]

WarnExtraProperty(name_pair, property, value) ==
    [kind |-> "WARNING: emote has extra property", key |-> name_pair,
     property |-> property, value |-> value]

\* The unpositioned emotes are given as a set: the order in which the
\* message lists them is the order of the dict, which is not modelled.
ErrMultipleUnsized(image_url, unpositioned_emotes) ==
    [kind |-> "ERROR: multiple unsized emotes within spritesheet",
     image_url |-> image_url, emotes |-> unpositioned_emotes]

\* The NormalEmote it returns and what it prints.
_convert_emote(name_pair, image_url, raw_emote) ==
    LET css1   == Without(raw_emote.css, {"display", "clear", "float"})
        width  == as_size(css1["width"])
        height == as_size(css1["height"])
        css2   == Without(css1, {"width", "height"})
        offset == IF "background-position" \in DOMAIN css2
                  THEN as_position(css2["background-position"], width, height)
                  ELSE None
        css    == Without(css2, {"background-position", "background-repeat"})
    IN  [emote |-> NormalEmote(name_pair[1], name_pair[2], css, image_url,
                               <<width, height>>, offset),
         log   |-> SetToBag({WarnExtraProperty(name_pair, p, css[p]) :
                        p \in DOMAIN css \ {"margin-left", "margin-right"}})]

\* A slip: the error is printed for a single unpositioned emote as well.
_verify_spritesheet_AtLeastOne(image_url, ss) ==
    LET unpositioned_emotes ==
            {name_pair \in DOMAIN ss.emotes : ss.emotes[name_pair].offset = None}
    IN  [ss  |-> [ss EXCEPT !.emotes =
                    [name_pair \in DOMAIN ss.emotes |->
                        IF name_pair \in unpositioned_emotes
                        THEN [ss.emotes[name_pair] EXCEPT !.offset = <<0, 0>>]
                        ELSE ss.emotes[name_pair]]],
         log |-> IF Cardinality(unpositioned_emotes) >= 1
                 THEN SetToBag({ErrMultipleUnsized(image_url, unpositioned_emotes)})
                 ELSE EmptyBag]

\* The spritesheet with its offsets defaulted, and what is printed.
_verify_spritesheet(image_url, ss) ==
    LET unpositioned_emotes ==
            {name_pair \in DOMAIN ss.emotes : ss.emotes[name_pair].offset = None}
    IN  [ss  |-> [ss EXCEPT !.emotes =
                    [name_pair \in DOMAIN ss.emotes |->
                        IF name_pair \in unpositioned_emotes
                        THEN [ss.emotes[name_pair] EXCEPT !.offset = <<0, 0>>]
                        ELSE ss.emotes[name_pair]]],
         log |-> IF Cardinality(unpositioned_emotes) > 1
                 THEN SetToBag({ErrMultipleUnsized(image_url, unpositioned_emotes)})
                 ELSE EmptyBag]

\* A slip: a new Spritesheet is made for every emote, also when there is one.
SheetsEmote_AlwaysCreate(st, name_pair) ==
    LET raw_emote == [st.emotes[name_pair] EXCEPT
                         !.css = Without(@, {"background-image"})]
        image_url == as_url(st.emotes[name_pair].css["background-image"])
        sheet     == Spritesheet(image_url, EmptyMap)
        converted == _convert_emote(name_pair, image_url, raw_emote)
    IN  [emotes       |-> [st.emotes EXCEPT ![name_pair] = raw_emote],
         spritesheets |->
            Update(st.spritesheets,
                   [u \in {image_url} |->
                       [sheet EXCEPT !.emotes =
                           Update(@, [k \in {name_pair} |-> converted.emote])]]),
         log          |-> st.log (+) converted.log]

\* The body of the first loop, for the emote stored at name_pair: the pop
\* changes the emote of the map it was given.
SheetsEmote(st, name_pair) ==
    LET raw_emote == [st.emotes[name_pair] EXCEPT
                         !.css = Without(@, {"background-image"})]
        image_url == as_url(st.emotes[name_pair].css["background-image"])
        sheet     == IF image_url \notin DOMAIN st.spritesheets
                     THEN Spritesheet(image_url, EmptyMap)
                     ELSE st.spritesheets[image_url]
        converted == _convert_emote(name_pair, image_url, raw_emote)
    IN  [emotes       |-> [st.emotes EXCEPT ![name_pair] = raw_emote],
         spritesheets |->
            Update(st.spritesheets,
                   [u \in {image_url} |->
                       [sheet EXCEPT !.emotes =
                           Update(@, [k \in {name_pair} |-> converted.emote])]]),
         log          |-> st.log (+) converted.log]

RECURSIVE SheetsLoop(_, _)
SheetsLoop(st, order) ==
    IF order = <<>> THEN st
    ELSE SheetsLoop(SheetsEmote(st, Head(order)), Tail(order))

\* The second loop: every spritesheet is verified on its own.
VerifyAll(sheets) ==
    LET each == [u \in DOMAIN sheets |-> _verify_spritesheet(u, sheets[u])]
    IN  [spritesheets |-> [u \in DOMAIN sheets |-> each[u].ss],
         log          |-> SetToBag(UNION {BagToSet(each[u].log) : u \in DOMAIN sheets})]

\* The spritesheets it returns, the emotes of its argument as it leaves
\* them, and what it prints, the first loop visiting in the given order.
build_spritesheet_map(ems, order) ==
    LET grouped  == SheetsLoop([emotes |-> ems, spritesheets |-> EmptyMap,
                                log |-> EmptyBag], order)
        verified == VerifyAll(grouped.spritesheets)
    IN  [spritesheets |-> verified.spritesheets,
         emotes       |-> grouped.emotes,
         log          |-> grouped.log (+) verified.log]

SheetKeys == {<<SMILE, None>>, <<SMILE, Some(HOVER)>>, <<PP3, None>>}

SheetImages == {"url(s.png)", "url('s.png')", "url(t.png)"}

SheetPositions == {"0px 0px", "-10px -20px"}

SheetBase(image) ==
    [p \in {"background-image", "width", "height"} |->
        CASE p = "background-image" -> image
          [] p = "width"            -> "10px"
          [] p = "height"           -> "20px"]

SheetCss ==
    {SheetBase(image) : image \in SheetImages}
    \cup {Update(SheetBase(image), [p \in {"background-position"} |-> position]) :
            image \in SheetImages, position \in SheetPositions}
    \cup {Update(SheetBase("url(s.png)"),
                 [p \in {"display", "float", "background-repeat", "margin-left",
                         "color"} |->
                     CASE p = "display"           -> "block"
                       [] p = "float"             -> "left"
                       [] p = "background-repeat" -> "no-repeat"
                       [] p = "margin-left"       -> "10px"
                       [] p = "color"             -> "red"])}

InitSheets ==
    /\ pc = "sheets"
    /\ normal_emotes \in EmoteMaps(SheetKeys, SheetCss)
    /\ selector = <<>>
    /\ parsed = None
    /\ css_rules = <<>>
    /\ extract = {}
    /\ partial_emotes = <<>>
    /\ emotes = EmptyMap
    /\ custom_emotes = EmptyMap
    /\ spritesheets = EmptyMap
    /\ log = EmptyBag

\* The normal emotes are the objects of the emote map, so what the pop does
\* to them shows in both maps.
Sheets ==
    /\ pc = "sheets"
    /\ \E order \in VisitOrders(normal_emotes) :
          LET built == build_spritesheet_map(normal_emotes, order)
          IN  /\ spritesheets' = built.spritesheets
              /\ normal_emotes' = built.emotes
              /\ emotes' = [key \in DOMAIN emotes |->
                              IF key \in DOMAIN built.emotes
                              THEN built.emotes[key] ELSE emotes[key]]
              /\ log' = log (+) built.log
    /\ pc' = "done"
    /\ UNCHANGED <<selector, parsed, css_rules, extract, partial_emotes,
                   custom_emotes>>

SpecSheets == InitSheets /\ [][Sheets]_vars

\* The emotes of a sheet that came without background-position.
C6_Unpositioned(url) ==
    {key \in DOMAIN spritesheets[url].emotes :
        "background-position" \notin DOMAIN normal_emotes[key].css}

C6_IsError(m) == m.kind = ErrMultipleUnsized("", {}).kind

(***************************************************************************)
(* C6: after build_spritesheet_map every emote of every spritesheet has an *)
(* offset; an emote without background-position has offset (0, 0) and one  *)
(* with it the position as_position gives; the 'multiple unsized emotes'   *)
(* error is printed for a spritesheet exactly when more than one of its    *)
(* emotes lacks background-position, once, naming those emotes.            *)
(***************************************************************************)
C6_OffsetsAndError ==
    pc = "done" =>
        /\ \A url \in DOMAIN spritesheets :
              /\ \A key \in DOMAIN spritesheets[url].emotes :
                    LET emote == spritesheets[url].emotes[key]
                        css   == normal_emotes[key].css
                    IN  /\ emote.offset # None
                        /\ emote.offset =
                              IF "background-position" \in DOMAIN css
                              THEN as_position(css["background-position"],
                                               as_size(css["width"]),
                                               as_size(css["height"]))
                              ELSE <<0, 0>>
              /\ CopiesIn(ErrMultipleUnsized(url, C6_Unpositioned(url)), log) =
                    (IF Cardinality(C6_Unpositioned(url)) > 1 THEN 1 ELSE 0)
        /\ \A m \in BagToSet(log) :
              C6_IsError(m) =>
                  /\ m.image_url \in DOMAIN spritesheets
                  /\ m.emotes = C6_Unpositioned(m.image_url)

\* Two unpositioned emotes in one sheet, reported, and a single one in
\* another, not reported.
C6_Witness ==
    /\ pc = "done"
    /\ DOMAIN spritesheets = {"s.png", "t.png"}
    /\ C6_Unpositioned("s.png") = {<<SMILE, None>>, <<SMILE, Some(HOVER)>>}
    /\ C6_Unpositioned("t.png") = {<<PP3, None>>}
    /\ spritesheets["s.png"].emotes[<<SMILE, None>>].offset = <<0, 0>>
    /\ spritesheets["t.png"].emotes[<<PP3, None>>].offset = <<0, 0>>
    /\ CopiesIn(ErrMultipleUnsized("s.png", C6_Unpositioned("s.png")), log) = 1
    /\ \A m \in BagToSet(log) : C6_IsError(m) => m.image_url = "s.png"

\* The resolved URL of an emote of the argument.
C8_Url(before, key) == as_url(before[key].css["background-image"])

C8_Grouped(before, sheets) ==
    /\ DOMAIN sheets = {C8_Url(before, key) : key \in DOMAIN before}
    /\ \A url \in DOMAIN sheets :
          /\ sheets[url].image_url = url
          /\ DOMAIN sheets[url].emotes =
                {key \in DOMAIN before : C8_Url(before, key) = url}
          /\ \A key \in DOMAIN sheets[url].emotes :
                /\ sheets[url].emotes[key].name = key[1]
                /\ sheets[url].emotes[key].suffix = key[2]
                /\ sheets[url].emotes[key].image_url = url

(***************************************************************************)
(* C8: build_spritesheet_map returns one spritesheet for every resolved    *)
(* background-image URL of the emotes it is given and no other; every      *)
(* emote is, under its own key, in the spritesheet of its own resolved URL *)
(* and in no other, and a spritesheet holds nothing else.                  *)
(***************************************************************************)
C8_OneSheetPerUrl ==
    [][pc = "sheets" /\ pc' = "done" => C8_Grouped(normal_emotes, spritesheets')]_vars

\* Two emotes share a sheet and the third has a sheet of its own.
C8_Witness ==
    /\ pc = "done"
    /\ DOMAIN spritesheets = {"s.png", "t.png"}
    /\ DOMAIN spritesheets["s.png"].emotes = {<<SMILE, None>>, <<PP3, None>>}
    /\ DOMAIN spritesheets["t.png"].emotes = {<<SMILE, Some(HOVER)>>}
    /\ \E u \in DOMAIN spritesheets : Cardinality(DOMAIN spritesheets[u].emotes) = 2

-----------------------------------------------------------------------------
(* The whole pipeline: the six functions of __all__, each on the result of *)
(* the one before.                                                         *)

MaxPipelineRules == 2

SmileProperties ==
    [p \in {"background-image", "width", "height", "background-position"} |->
        CASE p = "background-image"    -> "url(s.png)"
          [] p = "background-position" -> "0px 0px"
          [] OTHER                     -> "10px"]

PipelineRules ==
    { CssRule(<<SmileSelector>>, SmileProperties),
      CssRule(<<SmileSelector>>, [p \in {"width"} |-> "20px"]),
      CssRule(<<HoverSmileSelector, BAR>>,
              [p \in {"background-position"} |-> "-10px -20px"]),
      CssRule(<<Pp3Selector>>, [p \in {"color"} |-> "red"]),
      CssRule(<<Pp3Selector, SmileSelector>>,
              [p \in {"background-image", "width", "height", "color"} |->
                  CASE p = "background-image" -> "url(t.png)"
                    [] p = "color"            -> "red"
                    [] OTHER                  -> "20px"]),
      CssRule(<<EmoteSelector(<<>>, Some(BEFORE), <<>>, SMILE, Some(HOVER), <<>>)>>,
              [p \in {"color"} |-> "red"]),
      CssRule(<<START_PONYSCRIPT_IGNORE>>, EmptyMap),
      CssRule(<<END_PONYSCRIPT_IGNORE, BAR>>, EmptyMap) }

InitPipeline ==
    /\ pc = "filter"
    /\ css_rules \in UNION {[1..n -> PipelineRules] : n \in 0..MaxPipelineRules}
    /\ extract \in {{}, {SMILE}}
    /\ selector = <<>>
    /\ parsed = None
    /\ partial_emotes = <<>>
    /\ emotes = EmptyMap
    /\ normal_emotes = EmptyMap
    /\ custom_emotes = EmptyMap
    /\ spritesheets = EmptyMap
    /\ log = EmptyBag

NextPipeline == Filter \/ Extract \/ Build \/ Collapse \/ Classify \/ Sheets

SpecPipeline == InitPipeline /\ [][NextPipeline]_vars

\* The input of the end-to-end example: the one rule
\* a[href|="/smile"] { background-image: url(s.png); width: 10px;
\*                     height: 10px; background-position: 0px 0px }
\* and nothing requested explicitly.
C9_Input ==
    /\ extract = {}
    /\ Len(css_rules) = 1
    /\ css_rules[1].selectors = <<SmileSelector>>
    /\ css_rules[1].properties = SmileProperties

\* The result of the example, the emote being called name.
C9_Result(name) ==
    /\ DOMAIN spritesheets = {"s.png"}
    /\ spritesheets["s.png"].image_url = "s.png"
    /\ DOMAIN spritesheets["s.png"].emotes = {<<name, None>>}
    /\ spritesheets["s.png"].emotes[<<name, None>>] =
          NormalEmote(name, None, EmptyMap, "s.png", <<10, 10>>, <<0, 0>>)
    /\ DOMAIN normal_emotes = {<<name, None>>}
    /\ custom_emotes = EmptyMap
    /\ log = EmptyBag

\* C9 as the specification states it: the emote is called smile.
C9_AsStated ==
    pc = "done" /\ C9_Input => C9_Result(<<"s", "m", "i", "l", "e">>)

(***************************************************************************)
(* C9, amended: end to end, the one rule a[href|="/smile"] with            *)
(* background-image url(s.png), width 10px, height 10px and                *)
(* background-position 0px 0px gives one normal emote with key             *)
(* ("/smile", null), the slash being part of the name, in the single       *)
(* spritesheet "s.png" with size (10, 10) and offset (0, 0), no custom     *)
(* emote and nothing printed.                                              *)
(***************************************************************************)
C9_EndToEnd == pc = "done" /\ C9_Input => C9_Result(SMILE)

\* The example has run to the end and its emote is in the sheet s.png.
C9_Witness ==
    /\ pc = "done"
    /\ C9_Input
    /\ DOMAIN spritesheets = {"s.png"}
    /\ <<SMILE, None>> \in DOMAIN spritesheets["s.png"].emotes

=============================================================================
